---- MODULE Spec2Model ----
(***************************************************************************)
(* Model of the b64ct crate (src/b64ct/src/lib.rs): the unpadded "B64"     *)
(* codec.  Bytes are integers 0..255, slices are sequences (1-based),      *)
(* isize values are integers (every intermediate value of the symbol       *)
(* arithmetic has magnitude below 2^15, so two's-complement operations on  *)
(* them do not depend on the width), usize values that can overflow are    *)
(* 64-bit numbers kept as four 16-bit limbs.                               *)
(***************************************************************************)
EXTENDS Integers, Sequences, FiniteSets, TLC

\* ------------------------------------------------------------------------
\* Two's-complement arithmetic on isize values.

\* a & b on two's-complement integers of any sign.
RECURSIVE BitAnd(_, _)
BitAnd(a, b) ==
    IF a = 0 \/ b = 0 THEN 0
    ELSE IF a = -1 THEN b
    ELSE IF b = -1 THEN a
    ELSE (a % 2) * (b % 2) + 2 * BitAnd((a - (a % 2)) \div 2, (b - (b % 2)) \div 2)

\* a | b on two's-complement integers of any sign.
RECURSIVE BitOr(_, _)
BitOr(a, b) ==
    IF a = 0 THEN b
    ELSE IF b = 0 THEN a
    ELSE IF a = -1 \/ b = -1 THEN -1
    ELSE (IF a % 2 = 1 \/ b % 2 = 1 THEN 1 ELSE 0)
         + 2 * BitOr((a - (a % 2)) \div 2, (b - (b % 2)) \div 2)

\* 2^k
RECURSIVE Pow2(_)
Pow2(k) == IF k = 0 THEN 1 ELSE 2 * Pow2(k - 1)

\* a >> k on isize: arithmetic shift, rounds towards minus infinity.
Shr(a, k) == (a - (a % Pow2(k))) \div Pow2(k)

\* a << k on isize (no overflow at the magnitudes that occur).
Shl(a, k) == a * Pow2(k)

\* x as u8: truncation to the low 8 bits.
AsU8(x) == x % 256

Byte == 0..255

\* ------------------------------------------------------------------------
\* Symbol encoder and decoder.

\* encode_6bits without its last threshold (value > 62).
encode_6bits_no63(s) ==
    LET d0 == 65
        d1 == d0 + BitAnd(Shr(25 - s, 8), 6)
        d2 == d1 - BitAnd(Shr(51 - s, 8), 75)
        d3 == d2 - BitAnd(Shr(61 - s, 8), 15)
    IN  AsU8(s + d3)

encode_6bits(s) ==
    LET d0 == 65
        d1 == d0 + BitAnd(Shr(25 - s, 8), 6)
        d2 == d1 - BitAnd(Shr(51 - s, 8), 75)
        d3 == d2 - BitAnd(Shr(61 - s, 8), 15)
        d4 == d3 + BitAnd(Shr(62 - s, 8), 3)
    IN  AsU8(s + d4)

\* decode_6bits with the upper bound of the [A-Z] range one too high.
decode_6bits_wide(s) ==
    LET ch == s
        r0 == -1
        r1 == r0 + BitAnd(Shr(BitAnd(64 - ch, ch - 92), 8), ch - 64)
        r2 == r1 + BitAnd(Shr(BitAnd(96 - ch, ch - 123), 8), ch - 70)
        r3 == r2 + BitAnd(Shr(BitAnd(47 - ch, ch - 58), 8), ch + 5)
        r4 == r3 + BitAnd(Shr(BitAnd(42 - ch, ch - 44), 8), 63)
    IN  r4 + BitAnd(Shr(BitAnd(46 - ch, ch - 48), 8), 64)

decode_6bits(s) ==
    LET ch == s
        r0 == -1
        r1 == r0 + BitAnd(Shr(BitAnd(64 - ch, ch - 91), 8), ch - 64)
        r2 == r1 + BitAnd(Shr(BitAnd(96 - ch, ch - 123), 8), ch - 70)
        r3 == r2 + BitAnd(Shr(BitAnd(47 - ch, ch - 58), 8), ch + 5)
        r4 == r3 + BitAnd(Shr(BitAnd(42 - ch, ch - 44), 8), 63)
    IN  r4 + BitAnd(Shr(BitAnd(46 - ch, ch - 48), 8), 64)

\* decode_6bits over every byte value, evaluated once.
Decode6 == [ch \in Byte |-> decode_6bits(ch)]

\* encode_6bits over every 6-bit value, evaluated once.
Encode6 == [v \in 0..63 |-> encode_6bits(v)]

\* B64 character set: [A-Z] [a-z] [0-9] + /
IsAlphabet(ch) ==
    \/ (65 <= ch /\ ch <= 90)
    \/ (97 <= ch /\ ch <= 122)
    \/ (48 <= ch /\ ch <= 57)
    \/ ch = 43
    \/ ch = 47

\* ------------------------------------------------------------------------
\* Chunk functions.

\* The four symbols written to dst[0..4] for the three bytes s.
encode_3bytes(s) ==
    LET b0 == s[1]
        b1 == s[2]
        b2 == s[3]
    IN  << Encode6[Shr(b0, 2)],
           Encode6[BitAnd(BitOr(Shl(b0, 4), Shr(b1, 4)), 63)],
           Encode6[BitAnd(BitOr(Shl(b1, 2), Shr(b2, 6)), 63)],
           Encode6[BitAnd(b2, 63)] >>

\* decode_3bytes with the third byte assembled with a shift of 4 for 6.
decode_3bytes_shift4(s) ==
    LET c0 == Decode6[s[1]]
        c1 == Decode6[s[2]]
        c2 == Decode6[s[3]]
        c3 == Decode6[s[4]]
    IN  [ bytes |-> << AsU8(BitOr(Shl(c0, 2), Shr(c1, 4))),
                       AsU8(BitOr(Shl(c1, 4), Shr(c2, 2))),
                       AsU8(BitOr(Shl(c2, 4), c3)) >>,
          err   |-> BitAnd(Shr(BitOr(BitOr(c0, c1), BitOr(c2, c3)), 8), 1),
          nsym  |-> 4 ]

\* decode_3bytes that stops decoding symbols at the first invalid one.
decode_3bytes_short(s) ==
    LET c0 == Decode6[s[1]]
        c1 == Decode6[s[2]]
        c2 == Decode6[s[3]]
        c3 == Decode6[s[4]]
    IN  [ bytes |-> << AsU8(BitOr(Shl(c0, 2), Shr(c1, 4))),
                       AsU8(BitOr(Shl(c1, 4), Shr(c2, 2))),
                       AsU8(BitOr(Shl(c2, 6), c3)) >>,
          err   |-> BitAnd(Shr(BitOr(BitOr(c0, c1), BitOr(c2, c3)), 8), 1),
          nsym  |-> IF c0 < 0 THEN 1
                    ELSE IF c1 < 0 THEN 2
                    ELSE IF c2 < 0 THEN 3 ELSE 4 ]

\* The three bytes written to dst[0..3] for the four symbols s, the returned
\* invalidity signal, and the number of symbol decodes evaluated.
decode_3bytes(s) ==
    LET c0 == Decode6[s[1]]
        c1 == Decode6[s[2]]
        c2 == Decode6[s[3]]
        c3 == Decode6[s[4]]
    IN  [ bytes |-> << AsU8(BitOr(Shl(c0, 2), Shr(c1, 4))),
                       AsU8(BitOr(Shl(c1, 4), Shr(c2, 2))),
                       AsU8(BitOr(Shl(c2, 6), c3)) >>,
          err   |-> BitAnd(Shr(BitOr(BitOr(c0, c1), BitOr(c2, c3)), 8), 1),
          nsym  |-> 4 ]

\* ------------------------------------------------------------------------
\* usize: 64-bit unsigned, four 16-bit limbs, least significant first.

LimbBase == 65536

UsizeLimbs == 4

Usize == [1..UsizeLimbs -> 0..(LimbBase - 1)]

\* The usize holding the natural number k < 2^31.
ToUsize(k) == [j \in 1..UsizeLimbs |->
                 IF j = 1 THEN k % LimbBase
                 ELSE IF j = 2 THEN (k \div LimbBase) % LimbBase
                 ELSE 0]

\* The natural number held by a usize below 2^31.
FromUsize(u) == u[1] + LimbBase * u[2]

\* Carry out of limb j when u is multiplied by the small factor k.
RECURSIVE MulCarry(_, _, _)
MulCarry(u, k, j) ==
    IF j = 0 THEN 0 ELSE (u[j] * k + MulCarry(u, k, j - 1)) \div LimbBase

\* u * k: the wrapped product and whether it overflowed 64 bits.
UMul(u, k) ==
    [ val      |-> [j \in 1..UsizeLimbs |->
                      (u[j] * k + MulCarry(u, k, j - 1)) % LimbBase],
      overflow |-> MulCarry(u, k, UsizeLimbs) # 0 ]

\* Remainder carried into limb j (from the limbs above it) when dividing by d.
RECURSIVE DivRem(_, _, _)
DivRem(u, d, j) ==
    IF j > UsizeLimbs THEN 0
    ELSE (DivRem(u, d, j + 1) * LimbBase + u[j]) % d

\* u / d for a small divisor d.
UDiv(u, d) ==
    [j \in 1..UsizeLimbs |-> (DivRem(u, d, j + 1) * LimbBase + u[j]) \div d]

\* u % d for a small divisor d.
UMod(u, d) == DivRem(u, d, 1)

\* Carry into limb j when the small number a is added to u.
RECURSIVE AddCarry(_, _, _)
AddCarry(u, a, j) ==
    IF j = 1 THEN a ELSE (u[j - 1] + AddCarry(u, a, j - 1)) \div LimbBase

\* u + a for a small addend a (wrapping).
UAdd(u, a) == [j \in 1..UsizeLimbs |-> (u[j] + AddCarry(u, a, j)) % LimbBase]

\* ------------------------------------------------------------------------
\* Length functions.

\* encoded_len on a length n: the value returned when the arithmetic wraps,
\* and whether the multiplication overflowed (a panic when the build checks
\* overflow).
encoded_len_of(n) ==
    LET q == UMul(n, 4)
        r == UMod(q.val, 3)
    IN  [ val      |-> UAdd(UDiv(q.val, 3), IF r # 0 THEN 1 ELSE 0),
          overflow |-> q.overflow ]

\* decoded_len on a length n.
decoded_len_of(n) ==
    LET q == UMul(n, 3)
    IN  [ val |-> UDiv(q.val, 4), overflow |-> q.overflow ]

\* encoded_len(bytes) for a slice held in the model.
encoded_len(bytes) == FromUsize(encoded_len_of(ToUsize(Len(bytes))).val)

\* decoded_len(bytes) for a text held in the model.
decoded_len(bytes) == FromUsize(decoded_len_of(ToUsize(Len(bytes))).val)

\* ------------------------------------------------------------------------
\* Bounds of the model and the inputs drawn by Init.

\* Longest raw byte sequence given to encode.
MaxRawLen == 4

\* Longest text given to decode directly.
MaxTextLen == 8

\* Largest number of bytes by which a supplied buffer exceeds the need.
MaxSlack == 1

Min(a, b) == IF a < b THEN a ELSE b

\* k copies of the byte b.
Rep(b, k) == [j \in 1..k |-> b]

\* A caller's output buffer of l bytes, as vec![0u8; l] makes it.
Buf(l) == Rep(0, l)

\* Buffer lengths tried for a required length: one short, exact, and larger.
DstLens(need) == {l \in (need - 1)..(need + MaxSlack) : l >= 0}

\* Raw inputs: every byte value at every position, the other bytes all 0x00
\* or all 0xFF; and every sequence over a few bytes.
RawSample == {0, 165, 255}

RawInputs ==
    UNION {
      {[j \in 1..l |-> IF j = p THEN b ELSE bg] :
          p \in 1..l, b \in Byte, bg \in {0, 255}} \cup [1..l -> RawSample]
      : l \in 0..MaxRawLen }

\* One character of a str as its UTF-8 bytes: every ASCII character, and
\* multi-byte characters that between them use every byte value UTF-8 has.
Utf8Chars ==
    {<<c>> : c \in 0..127}
    \cup {<<194, c>> : c \in 128..191}
    \cup {<<l, 128>> : l \in 195..223}
    \cup {<<224, 160, 128>>, <<237, 128, 128>>}
    \cup {<<l, 128, 128>> : l \in (225..236) \cup {238, 239}}
    \cup {<<240, 144, 128, 128>>, <<244, 128, 128, 128>>}
    \cup {<<l, 128, 128, 128>> : l \in 241..243}

\* Texts: one arbitrary character anywhere in a run of 'A's; every text over
\* '/' and '='; and the texts "A=B", "AB", "AA".
TextSample == {47, 61}

TextInputs ==
    UNION {
      {Rep(65, a) \o c \o Rep(65, b) : b \in 0..(MaxTextLen - a - 1), c \in Utf8Chars}
      : a \in 0..(MaxTextLen - 1) }
    \cup UNION {[1..l -> TextSample] : l \in 0..MaxTextLen}
    \cup {<<65, 61, 66>>, <<65, 66>>, <<65, 65>>}

\* Lengths given to encoded_len: up to isize::MAX, around the overflow of 4n.
LimbSample == {0, 1, 2, 3, 16383, 16384, 65535}

TopLimbSample == {0, 1, 16383, 16384, 32767}

LenInputs ==
    {u \in [1..UsizeLimbs -> LimbSample \cup TopLimbSample] :
        \A j \in 1..UsizeLimbs :
            IF j = UsizeLimbs THEN u[j] \in TopLimbSample ELSE u[j] \in LimbSample}

\* ------------------------------------------------------------------------
\* State.

VARIABLES
    op,      \* the function called: "encode", "decode" or "encoded_len"
    src,     \* its input slice
    dst,     \* the caller's output buffer
    pc,      \* position in the function
    olen,    \* elen / dlen, the length of the output slice dst[..olen]
    i,       \* chunks consumed by the zipped chunk loop
    err,     \* decode's validity accumulator
    result,  \* "none", "Ok", "InvalidLength", "InvalidEncoding" or "panic"
    out,     \* the slice returned with Ok
    trace,   \* the steps decode has performed since its length check
    nsym,    \* symbol decodes evaluated by decode
    raw,     \* the bytes whose encoding is being decoded, for a round trip
    rt,      \* whether decode was called on the text encode returned
    n,       \* the length given to encoded_len
    ret,     \* the length it returned
    build    \* "debug" (overflow checks on) or "release" (wrapping)

vars == <<op, src, dst, pc, olen, i, err, result, out, trace, nsym, raw, rt,
          n, ret, build>>

Zero == ToUsize(0)

InitEncode ==
    /\ op = "encode"
    /\ src \in RawInputs
    /\ \E l \in DstLens(encoded_len(src)) : dst = Buf(l)
    /\ pc = "enc_start"
    /\ raw = src
    /\ n = Zero /\ build = "release"

InitDecode ==
    /\ op = "decode"
    /\ src \in {t \in TextInputs : Len(t) <= MaxTextLen}
    /\ \E l \in DstLens(decoded_len(src)) : dst = Buf(l)
    /\ pc = "dec_start"
    /\ raw = <<>>
    /\ n = Zero /\ build = "release"

InitEncodedLen ==
    /\ op = "encoded_len"
    /\ src = <<>> /\ dst = <<>>
    /\ pc = "len_start"
    /\ raw = <<>>
    /\ n \in LenInputs
    /\ build \in {"debug", "release"}

Init ==
    /\ (InitEncode \/ InitDecode \/ InitEncodedLen)
    /\ olen = 0 /\ i = 0 /\ err = 0
    /\ result = "none" /\ out = <<>>
    /\ trace = <<>> /\ nsym = 0
    /\ rt = FALSE /\ ret = Zero

\* ------------------------------------------------------------------------
\* Pieces of the drivers.

\* The buffer check off by one: a buffer one byte short passes.
too_short_off(need, dstlen) == need > dstlen + 1

\* The buffer check with the comparison reversed.
too_short_rev(need, dstlen) == dstlen > need

\* The output-buffer check of encode and decode: need > dst.len().
too_short(need, dstlen) == need > dstlen

\* Iterations of the zipped chunks_exact loop: the shorter of the two.
zip_len(srclen, srcchunk, dstlen, dstchunk) ==
    Min(srclen \div srcchunk, dstlen \div dstchunk)

\* chunks_exact(k).remainder(): the last len % k elements.
remainder(s, k) == SubSeq(s, Len(s) - (Len(s) % k) + 1, Len(s))

\* buf with the bytes w copied to positions at+1 .. at+Len(w).
write(buf, at, w) ==
    [k \in 1..Len(buf) |->
        IF at < k /\ k <= at + Len(w) THEN w[k - at] ELSE buf[k]]

\* tmp_in of encode: [0u8; 3] with the remainder copied to its front.
enc_tmp_in(rem) == rem \o Rep(0, 3 - Len(rem))

\* tmp_in of decode filled with '=' for 'A'.
dec_tmp_in_eq(rem) == rem \o Rep(61, 4 - Len(rem))

\* tmp_in of decode: [b'A'; 4] with the remainder copied to its front.
dec_tmp_in(rem) == rem \o Rep(65, 4 - Len(rem))

\* The structural check accepting a remainder of one symbol.
rem_check_ge1(remlen) == IF ~(remlen = 0 \/ remlen >= 1) THEN 1 ELSE 0

\* The structural check on decode's remainder, as an isize.
rem_check(remlen) == IF ~(remlen = 0 \/ remlen >= 2) THEN 1 ELSE 0

\* err = sig: assignment for OR.
accumulate_assign(e, sig) == sig

\* err |= sig
accumulate(e, sig) == BitOr(e, sig)

\* ------------------------------------------------------------------------
\* encode

EncLenCheck ==
    /\ pc = "enc_start"
    /\ LET elen == encoded_len(src)
       IN  IF too_short(elen, Len(dst))
           THEN /\ result' = "InvalidLength"
                /\ pc' = "done"
                /\ olen' = olen
           ELSE /\ olen' = elen
                /\ pc' = "enc_loop"
                /\ result' = result
    /\ i' = 0
    /\ UNCHANGED <<op, src, dst, err, out, trace, nsym, raw, rt, n, ret, build>>

EncChunk ==
    /\ pc = "enc_loop"
    /\ i < zip_len(Len(src), 3, olen, 4)
    /\ dst' = write(dst, 4 * i, encode_3bytes(SubSeq(src, 3 * i + 1, 3 * i + 3)))
    /\ i' = i + 1
    /\ UNCHANGED <<op, src, pc, olen, err, result, out, trace, nsym, raw, rt,
                   n, ret, build>>

EncRemainder ==
    /\ pc = "enc_loop"
    /\ i = zip_len(Len(src), 3, olen, 4)
    /\ LET src_rem == remainder(src, 3)
           dst_rem_len == olen % 4
           tmp_out == encode_3bytes(enc_tmp_in(src_rem))
           filled == write(dst, olen - dst_rem_len, SubSeq(tmp_out, 1, dst_rem_len))
       IN  /\ dst' = filled
           /\ out' = SubSeq(filled, 1, olen)
    /\ result' = "Ok"
    /\ pc' = "done"
    /\ UNCHANGED <<op, src, olen, i, err, trace, nsym, raw, rt, n, ret, build>>

\* ------------------------------------------------------------------------
\* decode

DecLenCheck ==
    /\ pc = "dec_start"
    /\ LET dlen == decoded_len(src)
       IN  IF too_short(dlen, Len(dst))
           THEN /\ result' = "InvalidLength"
                /\ pc' = "done"
                /\ olen' = olen
           ELSE /\ olen' = dlen
                /\ pc' = "dec_loop"
                /\ result' = result
    /\ err' = 0
    /\ i' = 0
    /\ UNCHANGED <<op, src, dst, out, trace, nsym, raw, rt, n, ret, build>>

DecChunk ==
    /\ pc = "dec_loop"
    /\ i < zip_len(Len(src), 4, olen, 3)
    /\ LET q == decode_3bytes(SubSeq(src, 4 * i + 1, 4 * i + 4))
       IN  /\ dst' = write(dst, 3 * i, q.bytes)
           /\ err' = accumulate(err, q.err)
           /\ nsym' = nsym + q.nsym
    /\ i' = i + 1
    /\ trace' = Append(trace, "quad")
    /\ UNCHANGED <<op, src, pc, olen, result, out, raw, rt, n, ret, build>>

DecRemCheck ==
    /\ pc = "dec_loop"
    /\ i = zip_len(Len(src), 4, olen, 3)
    /\ err' = accumulate(err, rem_check(Len(remainder(src, 4))))
    /\ pc' = "dec_rem"
    /\ trace' = Append(trace, "rem_check")
    /\ UNCHANGED <<op, src, dst, olen, i, result, out, nsym, raw, rt, n, ret, build>>

DecRemainder ==
    /\ pc = "dec_rem"
    /\ LET src_rem == remainder(src, 4)
           dst_rem_len == olen % 3
           q == decode_3bytes(dec_tmp_in(src_rem))
       IN  /\ dst' = write(dst, olen - dst_rem_len, SubSeq(q.bytes, 1, dst_rem_len))
           /\ err' = accumulate(err, q.err)
           /\ nsym' = nsym + q.nsym
    /\ pc' = "dec_final"
    /\ trace' = Append(trace, "quad")
    /\ UNCHANGED <<op, src, olen, i, result, out, raw, rt, n, ret, build>>

DecFinal ==
    /\ pc = "dec_final"
    /\ IF err = 0
       THEN /\ result' = "Ok"
            /\ out' = SubSeq(dst, 1, olen)
       ELSE /\ result' = "InvalidEncoding"
            /\ out' = out
    /\ pc' = "done"
    /\ trace' = Append(trace, "final")
    /\ UNCHANGED <<op, src, dst, olen, i, err, nsym, raw, rt, n, ret, build>>

\* The caller hands the text encode returned to decode, with a new buffer.
DecodeEncoded ==
    /\ pc = "done"
    /\ op = "encode"
    /\ result = "Ok"
    /\ op' = "decode"
    /\ src' = out
    /\ \E l \in DstLens(decoded_len(out)) : dst' = Buf(l)
    /\ pc' = "dec_start"
    /\ olen' = 0 /\ i' = 0
    /\ result' = "none"
    /\ out' = <<>>
    /\ rt' = TRUE
    /\ UNCHANGED <<err, trace, nsym, raw, n, ret, build>>

\* ------------------------------------------------------------------------
\* encoded_len on a length of any size

EncodedLenCall ==
    /\ pc = "len_start"
    /\ LET r == encoded_len_of(n)
       IN  IF r.overflow /\ build = "debug"
           THEN /\ result' = "panic"
                /\ ret' = ret
           ELSE /\ result' = "Ok"
                /\ ret' = r.val
    /\ pc' = "done"
    /\ UNCHANGED <<op, src, dst, olen, i, err, out, trace, nsym, raw, rt, n, build>>

Next ==
    \/ EncLenCheck
    \/ EncChunk
    \/ EncRemainder
    \/ DecLenCheck
    \/ DecChunk
    \/ DecRemCheck
    \/ DecRemainder
    \/ DecFinal
    \/ DecodeEncoded
    \/ EncodedLenCall

Spec == Init /\ [][Next]_vars

\* ------------------------------------------------------------------------
\* Reference definitions used to state the properties: the closed-form
\* lengths, the alphabet as a table, and decoding as a bit stream.

\* ceil(4n/3)
CeilEnc(k) == (4 * k + 2) \div 3

\* floor(3m/4)
FloorDec(m) == (3 * m) \div 4

\* ceil(4n/3) of a usize, computed without overflow as 4*(n/3) + {0,2,3}.
CeilEncUsize(u) ==
    LET r == UMod(u, 3)
    IN  UAdd(UMul(UDiv(u, 3), 4).val, IF r = 0 THEN 0 ELSE r + 1)

\* Index -> character of the alphabet.
AlphabetChar(v) ==
    IF v <= 25 THEN 65 + v
    ELSE IF v <= 51 THEN 97 + (v - 26)
    ELSE IF v <= 61 THEN 48 + (v - 52)
    ELSE IF v = 62 THEN 43 ELSE 47

\* Character -> index of the alphabet.
AlphabetIndex(ch) == CHOOSE v \in 0..63 : AlphabetChar(v) = ch

AllAlphabet(t) == \A k \in 1..Len(t) : IsAlphabet(t[k])

\* Bit p (0-based, most significant first) of the 6-bit stream of text t.
TextBit(t, p) == (AlphabetIndex(t[(p \div 6) + 1]) \div Pow2(5 - (p % 6))) % 2

\* The number whose binary digits are bits p .. p+cnt-1 of the stream.
RECURSIVE TextBits(_, _, _)
TextBits(t, p, cnt) ==
    IF cnt = 0 THEN 0 ELSE 2 * TextBits(t, p, cnt - 1) + TextBit(t, p + cnt - 1)

\* The first floor(3m/4) whole bytes of the bit stream of t.
RefDecode(t) == [k \in 1..FloorDec(Len(t)) |-> TextBits(t, 8 * (k - 1), 8)]

IsPrefix(a, b) == Len(a) <= Len(b) /\ a = SubSeq(b, 1, Len(a))

\* The steps of decode on a text of m symbols.
ExpectedTrace(m) ==
    [k \in 1..(m \div 4) |-> "quad"] \o <<"rem_check", "quad", "final">>

EncodeDone == op = "encode" /\ pc = "done"

DecodeDone == op = "decode" /\ pc = "done"

\* The buffer is large enough for the call in progress.
EncRoom == Len(dst) >= CeilEnc(Len(src))

DecRoom == Len(dst) >= FloorDec(Len(src))

\* ------------------------------------------------------------------------
\* Properties.

\* C1: round trip. encode into a buffer of at least encoded_len bytes
\* succeeds with a text of ceil(4n/3) bytes, and decoding that text into a
\* buffer of at least decoded_len bytes succeeds and returns the raw bytes.
RoundTrip ==
    /\ (EncodeDone /\ EncRoom) =>
          (result = "Ok" /\ Len(out) = CeilEnc(Len(src)))
    /\ (DecodeDone /\ rt /\ DecRoom) =>
          (result = "Ok" /\ out = raw)

RoundTripWitness ==
    /\ DecodeDone /\ rt /\ result = "Ok"
    /\ Len(raw) % 3 = 2
    /\ \E k \in 1..Len(raw) : raw[k] >= 128
    /\ out = raw
    /\ Len(dst) > Len(raw)

\* Bit 8 of the symbol decoder's result, for every byte value.
SymbolSignal == [ch \in Byte |-> BitAnd(Shr(Decode6[ch], 8), 1)]

\* 0 for the bytes of the alphabet, 1 for the others.
AlphabetSignal == [ch \in Byte |-> IF IsAlphabet(ch) THEN 0 ELSE 1]

\* C2: a text with a byte outside the alphabet, at any position, decoded into
\* a large enough buffer, is rejected with InvalidEncoding; and when decode
\* is entered the symbol decoder sets bit 8 for each of the 192 byte values
\* outside the alphabet and for none inside it.
InvalidByteRejected ==
    /\ (DecodeDone /\ DecRoom /\ ~AllAlphabet(src)) => result = "InvalidEncoding"
    /\ (op = "decode" /\ pc = "dec_start") => SymbolSignal = AlphabetSignal

InvalidByteRejectedWitness ==
    /\ DecodeDone /\ DecRoom /\ result = "InvalidEncoding"
    /\ Len(src) = 7
    /\ \A k \in 1..5 : IsAlphabet(src[k])
    /\ src[6] >= 128

\* C3: a text whose length is 1 modulo 4, whatever its content, decoded into a
\* large enough buffer, is rejected with InvalidEncoding.
LengthOneModFourRejected ==
    (DecodeDone /\ DecRoom /\ Len(src) % 4 = 1) => result = "InvalidEncoding"

LengthOneModFourWitness ==
    /\ DecodeDone /\ DecRoom /\ result = "InvalidEncoding"
    /\ Len(src) = 5
    /\ AllAlphabet(src)

\* C4: with an output buffer shorter than the required length, encode and
\* decode return InvalidLength straight from the length check and the buffer
\* keeps every byte it had.
ShortBufferUntouched ==
    /\ (op = "encode" /\ pc # "enc_start" /\ ~EncRoom) =>
          (pc = "done" /\ result = "InvalidLength" /\ dst = Buf(Len(dst)))
    /\ (op = "decode" /\ pc # "dec_start" /\ ~DecRoom) =>
          (pc = "done" /\ result = "InvalidLength" /\ dst = Buf(Len(dst)))

ShortBufferWitness ==
    /\ EncodeDone
    /\ Len(src) = 3
    /\ Len(dst) = CeilEnc(Len(src)) - 1
    /\ result = "InvalidLength"
    /\ dst = Buf(3)

\* C5: every byte encode writes, and every byte of the text it returns, is one
\* of the 64 alphabet characters, the tail of a partial chunk included.
EncodeEmitsAlphabet ==
    op = "encode" =>
        /\ \A k \in 1..Len(out) : IsAlphabet(out[k])
        /\ pc = "enc_loop" => \A k \in 1..(4 * i) : IsAlphabet(dst[k])
        /\ result = "Ok" => Len(out) = CeilEnc(Len(src))

EncodeEmitsAlphabetWitness ==
    /\ EncodeDone /\ result = "Ok"
    /\ Len(src) % 3 = 1
    /\ Len(out) % 4 = 2
    /\ out[Len(out) - 1] = 47

\* C6: encoded_len returns ceil(4n/3) for every length n and never fails.
EncodedLenIsCeil ==
    (op = "encoded_len" /\ pc = "done") =>
        (result = "Ok" /\ ret = CeilEncUsize(n))

\* C7: past the length check decode performs the steps fixed by the length
\* of the text alone - a quad decode per full group, the remainder check, the
\* quad decode of the padded remainder, the final test - and each quad decode
\* evaluates four symbol decodes, wherever invalid bytes occur.
DecodeStepsFixed ==
    op = "decode" =>
        /\ IsPrefix(trace, ExpectedTrace(Len(src)))
        /\ nsym = 4 * Len(SelectSeq(trace, LAMBDA x : x = "quad"))
        /\ (pc = "done" /\ result # "InvalidLength") =>
              trace = ExpectedTrace(Len(src))

DecodeStepsFixedWitness ==
    /\ DecodeDone /\ result = "InvalidEncoding"
    /\ Len(src) = 8
    /\ ~IsAlphabet(src[1])
    /\ \A k \in 2..8 : IsAlphabet(src[k])
    /\ trace = <<"quad", "quad", "rem_check", "quad", "final">>
    /\ nsym = 12

\* C8: the validity accumulator starts at 0, changes only by OR with 0 or 1,
\* never returns to 0 once non-zero, and decode returns Ok only when it is 0.
AccumulatorMonotonic ==
    /\ [](err \in {0, 1})
    /\ []((pc = "dec_loop" /\ i = 0) => err = 0)
    /\ [][(err # 0 => err' # 0) /\ err' \in {err, BitOr(err, 1)}]_vars
    /\ []((DecodeDone /\ result = "Ok") => err = 0)

AccumulatorMonotonicWitness ==
    /\ op = "decode" /\ pc = "dec_final"
    /\ Len(src) = 8
    /\ ~IsAlphabet(src[1])
    /\ \A k \in 2..8 : IsAlphabet(src[k])
    /\ err = 1

\* C9: a text of alphabet characters whose length is 0, 2 or 3 modulo 4,
\* decoded into a large enough buffer, is accepted and yields the first
\* floor(3m/4) bytes of its bit stream; the 'A' filler raises no error and
\* the unused low bits of the last symbol are ignored.
ValidTextAccepted ==
    (DecodeDone /\ DecRoom /\ AllAlphabet(src) /\ Len(src) % 4 # 1) =>
        /\ result = "Ok"
        /\ Len(out) = FloorDec(Len(src))
        /\ out = RefDecode(src)

ValidTextAcceptedWitness ==
    /\ DecodeDone /\ DecRoom
    /\ src = <<65, 66>>
    /\ result = "Ok"
    /\ out = <<0>>

\* C10: decode with too short a buffer returns InvalidLength whatever the
\* text holds, and InvalidEncoding is returned only when the buffer is large
\* enough.
LengthErrorFirst ==
    op = "decode" =>
        /\ (~DecRoom /\ pc # "dec_start") =>
              (pc = "done" /\ result = "InvalidLength" /\ trace = <<>> /\ nsym = 0)
        /\ result = "InvalidEncoding" => DecRoom

LengthErrorFirstWitness ==
    /\ DecodeDone /\ ~DecRoom
    /\ Len(src) % 4 = 1
    /\ ~AllAlphabet(src)
    /\ result = "InvalidLength"

====
